---- MODULE Spec2Model ----
(***************************************************************************)
(* Model of WebSocketService (src/src/services/WebSocketService.ts): the   *)
(* reconnecting, multiplexing market-data client.                          *)
(*                                                                         *)
(* Strings that the code concatenates and splits (channel, symbol, key,    *)
(* frame name) are sequences of one-character strings.  The symbol null    *)
(* and the empty string are both the empty sequence: the code only ever    *)
(* tests a symbol for truthiness (lines 164, 195, 218, 236).               *)
(*                                                                         *)
(* A socket is the record of its readyState and of whether it was ever     *)
(* open; the code never compares sockets, so this.ws holds the record of   *)
(* the socket it references and the other sockets whose handlers are still *)
(* registered with the transport form a bag.                               *)
(*                                                                         *)
(* An unsubscribe closure is the record of what it captured and of whether *)
(* it was invoked before; closures that captured the same values act the   *)
(* same, so the closures returned so far form a bag.                       *)
(*                                                                         *)
(* The transport (the platform WebSocket) is the environment: a socket     *)
(* that is CONNECTING opens or fails, an OPEN one closes, with or without  *)
(* an error event; an error event is always followed by the close event in *)
(* the same task, so the two handlers run as one step.                     *)
(*                                                                         *)
(* ws.onmessage and handleMessage read this.subscribers and write no field *)
(* of the client.  Their steps are explored under MsgSpec, which starts    *)
(* from a connected client and builds the registry with subscribe() and    *)
(* the unsubscribe closures; the life of the connection is under Spec.     *)
(***************************************************************************)
EXTENDS Integers, Sequences, FiniteSets, Bags, TLC

VARIABLES
    ws,                  \* this.ws: the socket it references, or NoSocket
    orphans,             \* bag of the live sockets this.ws does not reference
    isConnecting,        \* this.isConnecting
    isDestroyed,         \* this.isDestroyed
    reconnectAttempts,   \* this.reconnectAttempts
    reconnectTimer,      \* this.reconnectTimer: "null", "live" or "spent"
    timers,              \* number of setTimeout callbacks still pending
    subscribers,         \* this.subscribers: key -> set of callbacks
    activeSubscriptions, \* this.activeSubscriptions, in insertion order
    config,              \* this.config
    urlOk,               \* whether new WebSocket(config.url) succeeds
    handles,             \* bag of the unsubscribe closures returned so far
    dropped,             \* an opened connection has closed before
    last                 \* the step just taken and what it emitted

vars == <<ws, orphans, isConnecting, isDestroyed, reconnectAttempts,
          reconnectTimer, timers, subscribers, activeSubscriptions, config,
          urlOk, handles, dropped, last>>

----------------------------------------------------------------------------
(* Bounds *)

MaxSockets == 2
MaxHandles == 2
MaxReconnectAttempts == 2
MaxItems == 2

----------------------------------------------------------------------------
(* Inputs *)

Null == << >>

\* the (channel, symbol) pairs collaborators subscribe to
Pairs ==
    { [channel |-> <<"a">>, symbol |-> Null],
      [channel |-> <<"a">>, symbol |-> <<"b">>] }
Callbacks == 1 .. 2

\* pairs whose channel or symbol holds a colon, beside the plain pair that
\* reads the same once joined
KeyPairs ==
    { [channel |-> <<"a", ":", "b">>, symbol |-> Null],
      [channel |-> <<"a">>, symbol |-> <<"b">>],
      [channel |-> <<"a">>, symbol |-> <<"b", ":", "c">>] }

UserConfigs == { [maxReconnectAttempts |-> MaxReconnectAttempts] }

\* a configuration that asks for no retry at all
ZeroConfigs == { [maxReconnectAttempts |-> 0] }

\* the data collaborators pass to send()
Payloads == { <<"x">> }

\* the items of an inbound table frame: without a symbol, or with one
Items == { [symbol |-> Null], [symbol |-> <<"b">>] }

ItemLists == UNION { [1 .. n -> Items] : n \in 0 .. MaxItems }

\* the text of an inbound frame: whether it parses, and the value it parses to
NoEvent ==
    [wellFormed |-> FALSE,
     message |-> [type |-> "none", table |-> Null, action |-> "none",
                  hasData |-> FALSE, data |-> << >>]]

\* a table frame of the channel a
TableFrame(d) ==
    [wellFormed |-> TRUE,
     message |-> [type |-> "table", table |-> <<"a">>, action |-> "update",
                  hasData |-> TRUE, data |-> d]]

\* text that does not parse; table frames, one of them for a symbol nobody
\* subscribes to; a frame of another type, one without a table and one
\* without data
Events ==
    { NoEvent }
      \cup { TableFrame(d) : d \in ItemLists }
      \cup { TableFrame(<< [symbol |-> <<"c">>] >>) }
      \cup { [TableFrame(<< [symbol |-> <<"b">>] >>)
                 EXCEPT !.message.type = "subscriptions"],
             [TableFrame(<< [symbol |-> <<"b">>] >>)
                 EXCEPT !.message.table = Null],
             [TableFrame(<< >>) EXCEPT !.message.hasData = FALSE] }

----------------------------------------------------------------------------
(* Configuration *)

DefaultReconnectInterval == 3000
DefaultMaxReconnectAttempts == 10

Constructor(userConfig) ==
    [reconnectInterval |->
        IF "reconnectInterval" \in DOMAIN userConfig
        THEN userConfig.reconnectInterval ELSE DefaultReconnectInterval,
     maxReconnectAttempts |->
        IF "maxReconnectAttempts" \in DOMAIN userConfig
        THEN userConfig.maxReconnectAttempts ELSE DefaultMaxReconnectAttempts]

----------------------------------------------------------------------------
(* Strings *)

createSubscriptionKey(channel, symbol) ==
    IF symbol # Null THEN channel \o <<":">> \o symbol ELSE channel

\* the channel entry named by the channel alone
frameName_channelOnly(channel, symbol) == channel

\* payload.channels[0].name of a subscribe or unsubscribe frame (lines 195,
\* 218)
frameName(channel, symbol) ==
    IF symbol # Null THEN channel \o <<":">> \o symbol ELSE channel

includesColon(s) == \E i \in 1 .. Len(s) : s[i] = ":"

RECURSIVE split(_)
split(s) ==
    IF ~includesColon(s) THEN << s >>
    ELSE LET i == CHOOSE j \in 1 .. Len(s) :
                     s[j] = ":" /\ \A k \in 1 .. (j - 1) : s[k] # ":"
         IN  << SubSeq(s, 1, i - 1) >> \o split(SubSeq(s, i + 1, Len(s)))

\* const [channel, symbol] = key.includes(':') ? key.split(':') : [key, null]
splitKey(subscriptionKey) ==
    IF includesColon(subscriptionKey)
    THEN LET parts == split(subscriptionKey)
         IN  [channel |-> parts[1], symbol |-> parts[2]]
    ELSE [channel |-> subscriptionKey, symbol |-> Null]

----------------------------------------------------------------------------
(* Sockets *)

NoSocket == [rs |-> "NONE", wasOpen |-> FALSE]

NewSocket == [rs |-> "CONNECTING", wasOpen |-> FALSE]

\* the sockets whose handlers can still run: cur tells whether the socket is
\* the one this.ws references
Live ==
    (IF ws # NoSocket THEN { [cur |-> TRUE, s |-> ws] } ELSE {})
      \cup { [cur |-> FALSE, s |-> o] : o \in BagToSet(orphans) }

NumLive == BagCardinality(orphans) + (IF ws # NoSocket THEN 1 ELSE 0)

\* the orphans once this.ws stops referencing its socket
Orphaned == IF ws # NoSocket THEN orphans (+) SetToBag({ws}) ELSE orphans

\* this.ws?.readyState === WebSocket.OPEN, for this.ws = w
wsIsOpen(w) == w # NoSocket /\ w.rs = "OPEN"

getConnectionState == IF ws # NoSocket THEN ws.rs ELSE "CLOSED"

----------------------------------------------------------------------------
(* Wire *)

SetAdd(seq, x) ==
    IF \E i \in 1 .. Len(seq) : seq[i] = x THEN seq ELSE Append(seq, x)

SetDelete(seq, x) == SelectSeq(seq, LAMBDA y : y # x)

\* st = [active, frames]: the live set and the frames written so far
sendSubscription(st, channel, symbol, w) ==
    IF wsIsOpen(w)
    THEN [active |-> SetAdd(st.active, createSubscriptionKey(channel, symbol)),
          frames |-> Append(st.frames,
                            [type |-> "subscribe",
                             name |-> frameName(channel, symbol)])]
    ELSE st

sendUnsubscription(st, channel, symbol, w) ==
    IF wsIsOpen(w)
    THEN [active |-> SetDelete(st.active, createSubscriptionKey(channel, symbol)),
          frames |-> Append(st.frames,
                            [type |-> "unsubscribe",
                             name |-> frameName(channel, symbol)])]
    ELSE st

\* Set.prototype.forEach also visits the keys added during the iteration
RECURSIVE resubscribeFrom(_, _, _)
resubscribeFrom(st, i, w) ==
    IF i > Len(st.active) THEN st
    ELSE LET p == splitKey(st.active[i])
         IN  resubscribeFrom(sendSubscription(st, p.channel, p.symbol, w),
                             i + 1, w)

\* an open event that replays nothing
resubscribeAll_none(w) == [active |-> activeSubscriptions, frames |-> << >>]

resubscribeAll(w) ==
    resubscribeFrom([active |-> activeSubscriptions, frames |-> << >>], 1, w)

\* send() writing the frame whatever the state of the socket
send_always(data, w) == << [type |-> "data", name |-> data] >>

\* the frames send(data) writes, for this.ws = w
send(data, w) ==
    IF wsIsOpen(w) THEN << [type |-> "data", name |-> data] >> ELSE << >>

----------------------------------------------------------------------------
(* Inbound frames *)

\* JSON.parse(event.data): the value, or a SyntaxError
JSONparse(data) == [ok |-> data.wellFormed, value |-> data.message]

\* handleMessage looking every item up under the bare channel key
dispatchItem_bareKey(message, item, throwers) ==
    LET channel == message.table
        symbol == item.symbol
        subscriptionKey == createSubscriptionKey(channel, Null)
    IN  IF subscriptionKey \in DOMAIN subscribers
        THEN { [callback |-> callback,
                arg |-> [channel |-> channel, symbol |-> symbol,
                         action |-> message.action, data |-> item],
                threw |-> callback \in throwers] :
                  callback \in subscribers[subscriptionKey] }
        ELSE {}

\* handleMessage without the try/catch around the callback: the callbacks
\* that follow the one that throws are not invoked
dispatchItem_noIsolation(message, item, throwers) ==
    LET channel == message.table
        symbol == item.symbol
        subscriptionKey == createSubscriptionKey(channel, symbol)
    IN  IF subscriptionKey \in DOMAIN subscribers
        THEN { [callback |-> callback,
                arg |-> [channel |-> channel, symbol |-> symbol,
                         action |-> message.action, data |-> item],
                threw |-> callback \in throwers] :
                  callback \in
                    { c \in subscribers[subscriptionKey] :
                        \A t \in subscribers[subscriptionKey] \cap throwers :
                            c <= t } }
        ELSE {}

\* the body of message.data.forEach (lines 163-182): the invocations made
\* for one item; the callbacks in throwers throw, which the try/catch around
\* each invocation catches
dispatchItem(message, item, throwers) ==
    LET channel == message.table
        symbol == item.symbol
        subscriptionKey == createSubscriptionKey(channel, symbol)
    IN  IF subscriptionKey \in DOMAIN subscribers
        THEN { [callback |-> callback,
                arg |-> [channel |-> channel, symbol |-> symbol,
                         action |-> message.action, data |-> item],
                threw |-> callback \in throwers] :
                  callback \in subscribers[subscriptionKey] }
        ELSE {}

\* the invocations handleMessage makes, item by item
handleMessage(message, throwers) ==
    IF message.type = "table" /\ message.table # Null /\ message.hasData
    THEN [i \in 1 .. Len(message.data) |->
             dispatchItem(message, message.data[i], throwers)]
    ELSE << >>

\* ws.onmessage without the try/catch around JSON.parse
onmessage_noCatch(data, throwers) ==
    LET p == JSONparse(data)
    IN  IF p.ok
        THEN [res |-> "none", err |-> "none",
              calls |-> handleMessage(p.value, throwers)]
        ELSE [res |-> "rejected", err |-> "parse", calls |-> << >>]

\* ws.onmessage (lines 86-93): res tells whether the handler threw
onmessage(data, throwers) ==
    LET p == JSONparse(data)
    IN  IF p.ok
        THEN [res |-> "none", err |-> "none",
              calls |-> handleMessage(p.value, throwers)]
        ELSE [res |-> "none", err |-> "parse", calls |-> << >>]

----------------------------------------------------------------------------
(* Reconnection *)

\* this.config.maxReconnectAttempts || 10
effectiveMaxAttempts ==
    IF config.maxReconnectAttempts # 0
    THEN config.maxReconnectAttempts ELSE DefaultMaxReconnectAttempts

\* the budget test off by one
shouldReconnect_offByOne == reconnectAttempts <= effectiveMaxAttempts

shouldReconnect == reconnectAttempts < effectiveMaxAttempts

\* onclose without the test of the destroyed flag
oncloseReconnects_ignoresDestroyed == shouldReconnect

\* the condition under which ws.onclose schedules a reconnect (line 100)
oncloseReconnects == ~isDestroyed /\ shouldReconnect

\* a delay that grows with the attempts made
reconnectDelay_linear(attempts) == config.reconnectInterval * (attempts + 1)

\* the delay argument of setTimeout (line 265) when reconnectAttempts is
\* attempts
reconnectDelay(attempts) == config.reconnectInterval

\* scheduleReconnect without the clearTimeout of the pending timer
scheduleReconnect_noClear ==
    [timers |-> timers + 1,
     reconnectTimer |-> "live",
     cleared |-> FALSE,
     delay |-> reconnectDelay(reconnectAttempts)]

\* clearTimeout of the handle, then setTimeout
scheduleReconnect ==
    [timers |-> (IF reconnectTimer = "live" THEN timers - 1 ELSE timers) + 1,
     reconnectTimer |-> "live",
     cleared |-> reconnectTimer = "live",
     delay |-> reconnectDelay(reconnectAttempts)]

\* connect() without the test of the destroyed flag
connect_ignoresDestroyed ==
    IF isConnecting
    THEN [ws |-> ws, orphans |-> orphans, isConnecting |-> isConnecting,
          res |-> "resolved", err |-> "none", created |-> FALSE]
    ELSE IF ~urlOk
    THEN [ws |-> ws, orphans |-> orphans, isConnecting |-> FALSE,
          res |-> "rejected", err |-> "constructor", created |-> FALSE]
    ELSE [ws |-> NewSocket, orphans |-> Orphaned, isConnecting |-> TRUE,
          res |-> "pending", err |-> "none", created |-> TRUE]

\* the body of connect(): what it does to the connection and what it returns
connect ==
    IF isDestroyed
    THEN [ws |-> ws, orphans |-> orphans, isConnecting |-> isConnecting,
          res |-> "rejected", err |-> "Service destroyed", created |-> FALSE]
    ELSE IF isConnecting
    THEN [ws |-> ws, orphans |-> orphans, isConnecting |-> isConnecting,
          res |-> "resolved", err |-> "none", created |-> FALSE]
    ELSE IF ~urlOk
    THEN [ws |-> ws, orphans |-> orphans, isConnecting |-> FALSE,
          res |-> "rejected", err |-> "constructor", created |-> FALSE]
    ELSE [ws |-> NewSocket, orphans |-> Orphaned, isConnecting |-> TRUE,
          res |-> "pending", err |-> "none", created |-> TRUE]

\* connect() may run here: it needs no new socket, or there is room for one
CanConnect == isDestroyed \/ isConnecting \/ ~urlOk \/ NumLive < MaxSockets

\* disconnect() leaving the registry as it is
disconnect_keepsRegistry ==
    [isDestroyed |-> TRUE,
     timers |-> IF reconnectTimer = "live" THEN timers - 1 ELSE timers,
     reconnectTimer |-> "null",
     orphans |-> IF ws # NoSocket
                 THEN orphans (+) SetToBag({[ws EXCEPT !.rs = "CLOSING"]})
                 ELSE orphans,
     ws |-> NoSocket,
     subscribers |-> subscribers,
     activeSubscriptions |-> << >>]

\* disconnect() without the clearTimeout of the pending timer
disconnect_keepsTimer ==
    [isDestroyed |-> TRUE,
     timers |-> timers,
     reconnectTimer |-> reconnectTimer,
     orphans |-> IF ws # NoSocket
                 THEN orphans (+) SetToBag({[ws EXCEPT !.rs = "CLOSING"]})
                 ELSE orphans,
     ws |-> NoSocket,
     subscribers |-> << >>,
     activeSubscriptions |-> << >>]

\* the body of disconnect(): the fields it leaves; close() moves the socket
\* to CLOSING, and its close event follows later
disconnect ==
    [isDestroyed |-> TRUE,
     timers |-> IF reconnectTimer = "live" THEN timers - 1 ELSE timers,
     reconnectTimer |-> "null",
     orphans |-> IF ws # NoSocket
                 THEN orphans (+) SetToBag({[ws EXCEPT !.rs = "CLOSING"]})
                 ELSE orphans,
     ws |-> NoSocket,
     subscribers |-> << >>,
     activeSubscriptions |-> << >>]

----------------------------------------------------------------------------
(* Steps *)

NoHandle ==
    [subscriptionKey |-> Null, channel |-> Null, symbol |-> Null,
     callback |-> 0, used |-> FALSE]

NoStep ==
    [op |-> "init", cur |-> FALSE, created |-> FALSE, h |-> NoHandle,
     res |-> "none", err |-> "none", wasOpen |-> FALSE, sched |-> FALSE,
     cleared |-> FALSE, delay |-> 0, frames |-> << >>, msg |-> NoEvent, calls |-> << >>]

Init ==
    /\ ws = NoSocket
    /\ orphans = EmptyBag
    /\ isConnecting = FALSE
    /\ isDestroyed = FALSE
    /\ reconnectAttempts = 0
    /\ reconnectTimer = "null"
    /\ timers = 0
    /\ subscribers = << >>
    /\ activeSubscriptions = << >>
    /\ config \in { Constructor(u) : u \in UserConfigs }
    /\ urlOk \in BOOLEAN
    /\ handles = EmptyBag
    /\ dropped = FALSE
    /\ last = NoStep

\* connect() called by a collaborator
Connect ==
    /\ CanConnect
    /\ LET c == connect
       IN  /\ ws' = c.ws
           /\ orphans' = c.orphans
           /\ isConnecting' = c.isConnecting
           /\ last' = [NoStep EXCEPT !.op = "connect", !.res = c.res,
                                     !.err = c.err, !.created = c.created]
    /\ UNCHANGED <<isDestroyed, reconnectAttempts, reconnectTimer, timers,
                   subscribers, activeSubscriptions, config, urlOk, handles,
                   dropped>>

\* ws.onopen of the socket x (lines 76-84)
SockOpen(x) ==
    /\ x \in Live
    /\ x.s.rs = "CONNECTING"
    /\ LET opened == [rs |-> "OPEN", wasOpen |-> TRUE]
           w == IF x.cur THEN opened ELSE ws
           st == resubscribeAll(w)
       IN  /\ ws' = w
           /\ orphans' = IF x.cur THEN orphans
                         ELSE (orphans (-) SetToBag({x.s})) (+) SetToBag({opened})
           /\ activeSubscriptions' = st.active
           /\ last' = [NoStep EXCEPT !.op = "open", !.cur = x.cur,
                                     !.res = "resolved", !.frames = st.frames]
    /\ isConnecting' = FALSE
    /\ reconnectAttempts' = 0
    /\ UNCHANGED <<isDestroyed, reconnectTimer, timers, subscribers, config,
                   urlOk, handles, dropped>>

\* the close event of the socket x, preceded by its error event when error
\* holds: ws.onerror (lines 105-109), then ws.onclose (lines 95-103)
SockClose(x, error) ==
    /\ x \in Live
    /\ error \in (IF x.s.wasOpen THEN BOOLEAN ELSE {TRUE})
    /\ orphans' = IF x.cur THEN orphans ELSE Orphaned (-) SetToBag({x.s})
    /\ isConnecting' = FALSE
    /\ ws' = NoSocket
    /\ LET sched == oncloseReconnects
           t == scheduleReconnect
       IN  /\ timers' = IF sched THEN t.timers ELSE timers
           /\ reconnectTimer' = IF sched THEN t.reconnectTimer ELSE reconnectTimer
           /\ last' = [NoStep EXCEPT
                         !.op = "close", !.cur = x.cur,
                         !.wasOpen = x.s.wasOpen,
                         !.res = IF error /\ ~x.s.wasOpen
                                 THEN "rejected" ELSE "none",
                         !.err = IF error THEN "error" ELSE "none",
                         !.sched = sched,
                         !.cleared = sched /\ t.cleared,
                         !.delay = IF sched THEN t.delay ELSE 0]
    /\ dropped' = (dropped \/ x.s.wasOpen)
    /\ UNCHANGED <<isDestroyed, reconnectAttempts, subscribers,
                   activeSubscriptions, config, urlOk, handles>>

\* the setTimeout callback of scheduleReconnect (lines 261-265)
TimerFire ==
    /\ timers > 0
    /\ CanConnect
    /\ timers' = timers - 1
    /\ reconnectTimer' = IF timers = 1 /\ reconnectTimer = "live"
                         THEN "spent" ELSE reconnectTimer
    /\ reconnectAttempts' = reconnectAttempts + 1
    /\ LET c == connect
       IN  /\ ws' = c.ws
           /\ orphans' = c.orphans
           /\ isConnecting' = c.isConnecting
           /\ last' = [NoStep EXCEPT !.op = "timer", !.res = c.res,
                                     !.err = c.err, !.created = c.created]
    /\ UNCHANGED <<isDestroyed, subscribers, activeSubscriptions, config,
                   urlOk, handles, dropped>>

\* subscribe() sending the subscription for every subscriber
isFirstSubscriber_always(subscriptionKey) == TRUE

\* whether subscribe() creates the key's callback set (line 128)
isFirstSubscriber(subscriptionKey) == subscriptionKey \notin DOMAIN subscribers

\* the callbacks a collaborator passes: one it passed before, or the next new
\* one (callbacks are opaque, so which new one is immaterial)
KnownCallbacks ==
    { c \in Callbacks :
        \A d \in 1 .. (c - 1) : \E h \in BagToSet(handles) : h.callback = d }

\* subscribe(channel, symbol, callback)
Subscribe(channel, symbol, callback) ==
    /\ BagCardinality(handles) < MaxHandles
    /\ callback \in KnownCallbacks
    /\ LET subscriptionKey == createSubscriptionKey(channel, symbol)
           st0 == [active |-> activeSubscriptions, frames |-> << >>]
           st == IF isFirstSubscriber(subscriptionKey)
                 THEN sendSubscription(st0, channel, symbol, ws)
                 ELSE st0
           old == IF subscriptionKey \in DOMAIN subscribers
                  THEN subscribers[subscriptionKey] ELSE {}
           handle == [subscriptionKey |-> subscriptionKey,
                      channel |-> channel, symbol |-> symbol,
                      callback |-> callback, used |-> FALSE]
       IN  /\ subscribers' =
                 [k \in DOMAIN subscribers \cup {subscriptionKey} |->
                     IF k = subscriptionKey THEN old \cup {callback}
                     ELSE subscribers[k]]
           /\ activeSubscriptions' = st.active
           /\ handles' = handles (+) SetToBag({handle})
           /\ last' = [NoStep EXCEPT !.op = "subscribe", !.h = handle,
                                     !.frames = st.frames]
    /\ UNCHANGED <<ws, orphans, isConnecting, isDestroyed, reconnectAttempts,
                   reconnectTimer, timers, config, urlOk, dropped>>

\* the unsubscribe closure going on when the key has no callback set
hasCallbackSet_always(subscriptionKey) == TRUE

\* whether this.subscribers.get(subscriptionKey) is defined (line 142)
hasCallbackSet(subscriptionKey) == subscriptionKey \in DOMAIN subscribers

\* the unsubscribe closure returned by subscribe (lines 140-152)
Unsubscribe(h) ==
    /\ BagIn(h, handles)
    /\ LET c == h
           st0 == [active |-> activeSubscriptions, frames |-> << >>]
           present == hasCallbackSet(c.subscriptionKey)
           rest == IF c.subscriptionKey \in DOMAIN subscribers
                   THEN subscribers[c.subscriptionKey] \ {c.callback} ELSE {}
           st == IF present /\ rest = {}
                 THEN sendUnsubscription(st0, c.channel, c.symbol, ws)
                 ELSE st0
       IN  /\ subscribers' =
                 IF ~present THEN subscribers
                 ELSE IF rest = {}
                 THEN [k \in DOMAIN subscribers \ {c.subscriptionKey} |->
                          subscribers[k]]
                 ELSE [subscribers EXCEPT ![c.subscriptionKey] = rest]
           /\ activeSubscriptions' = st.active
           /\ last' = [NoStep EXCEPT !.op = "unsubscribe", !.h = h,
                                     !.frames = st.frames]
    /\ handles' = (handles (-) SetToBag({h}))
                     (+) SetToBag({[h EXCEPT !.used = TRUE]})
    /\ UNCHANGED <<ws, orphans, isConnecting, isDestroyed, reconnectAttempts,
                   reconnectTimer, timers, config, urlOk, dropped>>

\* disconnect()
Disconnect ==
    /\ LET d == disconnect
       IN  /\ isDestroyed' = d.isDestroyed
           /\ timers' = d.timers
           /\ reconnectTimer' = d.reconnectTimer
           /\ orphans' = d.orphans
           /\ ws' = d.ws
           /\ subscribers' = d.subscribers
           /\ activeSubscriptions' = d.activeSubscriptions
    /\ last' = [NoStep EXCEPT !.op = "disconnect", !.cur = (ws # NoSocket),
                              !.wasOpen = ws.wasOpen]
    /\ UNCHANGED <<isConnecting, reconnectAttempts, config, urlOk, handles,
                   dropped>>

\* send(data)
Send(data) ==
    /\ last' = [NoStep EXCEPT !.op = "send", !.frames = send(data, ws),
                              !.err = IF wsIsOpen(ws) THEN "none" ELSE "warn"]
    /\ UNCHANGED <<ws, orphans, isConnecting, isDestroyed, reconnectAttempts,
                   reconnectTimer, timers, subscribers, activeSubscriptions,
                   config, urlOk, handles, dropped>>

\* ws.onmessage of the socket x receiving the text data
OnMessage(x, data, throwers) ==
    /\ x \in Live
    /\ x.s.wasOpen
    /\ LET m == onmessage(data, throwers)
       IN  last' = [NoStep EXCEPT !.op = "message", !.cur = x.cur,
                                  !.res = m.res, !.err = m.err,
                                  !.msg = data, !.calls = m.calls]
    /\ UNCHANGED <<ws, orphans, isConnecting, isDestroyed, reconnectAttempts,
                   reconnectTimer, timers, subscribers, activeSubscriptions,
                   config, urlOk, handles, dropped>>

\* the sockets an event can name, and the closures a collaborator can hold
Sockets == { [cur |-> c, s |-> [rs |-> r, wasOpen |-> o]] :
                c \in BOOLEAN, r \in {"CONNECTING", "OPEN", "CLOSING"},
                o \in BOOLEAN }

Closures == { [subscriptionKey |-> createSubscriptionKey(p.channel, p.symbol),
               channel |-> p.channel, symbol |-> p.symbol,
               callback |-> c, used |-> u] :
                p \in Pairs, c \in Callbacks, u \in BOOLEAN }

Next ==
    \/ Connect
    \/ \E x \in Sockets : SockOpen(x)
    \/ \E x \in Sockets, error \in BOOLEAN : SockClose(x, error)
    \/ TimerFire
    \/ \E p \in Pairs, callback \in Callbacks :
          Subscribe(p.channel, p.symbol, callback)
    \/ \E h \in Closures : Unsubscribe(h)
    \/ Disconnect
    \/ \E data \in Payloads : Send(data)

Spec == Init /\ [][Next]_vars

\* a client that has connected, before any subscribe()
MsgInit ==
    /\ ws = [rs |-> "OPEN", wasOpen |-> TRUE]
    /\ orphans = EmptyBag
    /\ isConnecting = FALSE
    /\ isDestroyed = FALSE
    /\ reconnectAttempts = 0
    /\ reconnectTimer = "null"
    /\ timers = 0
    /\ subscribers = << >>
    /\ activeSubscriptions = << >>
    /\ config \in { Constructor(u) : u \in UserConfigs }
    /\ urlOk = TRUE
    /\ handles = EmptyBag
    /\ dropped = FALSE
    /\ last = [NoStep EXCEPT !.op = "open", !.cur = TRUE, !.res = "resolved"]

MsgNext ==
    \/ \E p \in Pairs, callback \in Callbacks :
          Subscribe(p.channel, p.symbol, callback)
    \/ \E h \in Closures : Unsubscribe(h)
    \/ \E x \in Sockets, data \in Events, throwers \in SUBSET Callbacks :
          OnMessage(x, data, throwers)

MsgSpec == MsgInit /\ [][MsgNext]_vars

\* the life of the connection alone: the registry plays no part in it
ConnNext ==
    \/ Connect
    \/ \E x \in Sockets : SockOpen(x)
    \/ \E x \in Sockets, error \in BOOLEAN : SockClose(x, error)
    \/ TimerFire
    \/ Disconnect

\* a client constructed with maxReconnectAttempts: 0
ZeroInit ==
    /\ ws = NoSocket
    /\ orphans = EmptyBag
    /\ isConnecting = FALSE
    /\ isDestroyed = FALSE
    /\ reconnectAttempts = 0
    /\ reconnectTimer = "null"
    /\ timers = 0
    /\ subscribers = << >>
    /\ activeSubscriptions = << >>
    /\ config \in { Constructor(u) : u \in ZeroConfigs }
    /\ urlOk \in BOOLEAN
    /\ handles = EmptyBag
    /\ dropped = FALSE
    /\ last = NoStep

ZeroSpec == ZeroInit /\ [][ConnNext]_vars

\* the closures a collaborator can hold for the pairs of KeyPairs
KeyClosures ==
    { [subscriptionKey |-> createSubscriptionKey(p.channel, p.symbol),
       channel |-> p.channel, symbol |-> p.symbol,
       callback |-> c, used |-> u] :
         p \in KeyPairs, c \in Callbacks, u \in BOOLEAN }

\* one table frame for each pair of KeyPairs
KeyEvents ==
    { [TableFrame(<< [symbol |-> p.symbol] >>)
          EXCEPT !.message.table = p.channel] : p \in KeyPairs }

\* a connected client whose collaborators use the pairs of KeyPairs, with
\* drops, automatic reconnection and inbound frames
KeyNext ==
    \/ \E p \in KeyPairs, callback \in Callbacks :
          Subscribe(p.channel, p.symbol, callback)
    \/ \E h \in KeyClosures : Unsubscribe(h)
    \/ \E x \in Sockets : SockOpen(x)
    \/ \E x \in Sockets, error \in BOOLEAN : SockClose(x, error)
    \/ TimerFire
    \/ \E x \in Sockets, data \in KeyEvents : OnMessage(x, data, {})

KeySpec == MsgInit /\ [][KeyNext]_vars

\* the connection left to itself once an opened connection has dropped:
\* no collaborator calls connect() any more, and the transport neither
\* refuses an attempt nor drops a connection again
LiveNext ==
    \/ ~dropped /\ Connect
    \/ \E x \in Sockets : SockOpen(x)
    \/ \E x \in Sockets, error \in BOOLEAN :
          ~dropped /\ SockClose(x, error)
    \/ TimerFire
    \/ Disconnect

\* a timer that was set and not cleared fires (lines 261-265), and a socket
\* the transport does not refuse opens (lines 76-84)
LiveSpec ==
    /\ Init
    /\ [][LiveNext]_vars
    /\ WF_vars(TimerFire)
    /\ \A x \in Sockets : WF_vars(SockOpen(x))

----------------------------------------------------------------------------
(* Vocabulary of the properties *)

Keys == DOMAIN subscribers

FrameNames(frames, type) ==
    { frames[i].name : i \in { j \in 1 .. Len(frames) : frames[j].type = type } }

CountFrames(frames, type, name) ==
    Cardinality({ i \in 1 .. Len(frames) :
                    frames[i].type = type /\ frames[i].name = name })

----------------------------------------------------------------------------
(* Replay on open *)

\* C1: on every open event a subscribe frame is emitted for every key that is
\* in the registry at that moment, also for a key first registered while the
\* client was disconnected or still connecting.
C1_OpenReplaysRegistry ==
    last.op = "open" =>
        \A k \in Keys : CountFrames(last.frames, "subscribe", k) >= 1

\* C3: after a connection drop followed by a successful reconnect (the open
\* event of the client's only socket), a subscribe frame is resent for every
\* key still holding a callback, and the frames resent are for such keys only.
C3_ReconnectResendsHeldKeys ==
    (last.op = "open" /\ last.cur /\ dropped /\ orphans = EmptyBag) =>
        /\ \A k \in Keys : CountFrames(last.frames, "subscribe", k) = 1
        /\ FrameNames(last.frames, "subscribe") \subseteq Keys

----------------------------------------------------------------------------
(* Reference counting of subscriptions *)

SubscribeFrame(h) == [type |-> "subscribe", name |-> frameName(h.channel, h.symbol)]

UnsubscribeFrame(h) == [type |-> "unsubscribe", name |-> frameName(h.channel, h.symbol)]

\* the frames a subscribe or unsubscribe step owes the wire, when the wire
\* takes them (canSend): one subscribe frame when the callback set goes from
\* empty to non-empty, one unsubscribe frame when it becomes empty, else none
OwedFrames(canSend) ==
    IF last'.op = "subscribe"
    THEN IF last'.h.subscriptionKey \notin Keys /\ canSend
         THEN << SubscribeFrame(last'.h) >> ELSE << >>
    ELSE IF last'.h.subscriptionKey \in Keys
            /\ last'.h.subscriptionKey \notin DOMAIN subscribers'
            /\ canSend
         THEN << UnsubscribeFrame(last'.h) >> ELSE << >>

C5_SecondInvocationNoOp ==
    [][(last'.op = "unsubscribe" /\ last'.h.used) =>
          /\ subscribers' = subscribers
          /\ activeSubscriptions' = activeSubscriptions
          /\ last'.frames = << >>]_vars

\* C6: when the same callback was subscribed twice to the same key (two
\* handles not yet invoked, on a client never torn down), invoking one of the
\* handles leaves the callback registered under the key and emits no frame;
\* and a handle never changes the callbacks of another key.
C6_TokenIdentity ==
    [][last'.op = "unsubscribe" =>
          LET h == last'.h
          IN  /\ (~isDestroyed /\ ~h.used /\ CopiesIn(h, handles) >= 2) =>
                    /\ h.subscriptionKey \in DOMAIN subscribers'
                    /\ h.callback \in subscribers'[h.subscriptionKey]
                    /\ last'.frames = << >>
              /\ \A k \in (Keys \cup DOMAIN subscribers') \ {h.subscriptionKey} :
                    /\ k \in Keys
                    /\ k \in DOMAIN subscribers'
                    /\ subscribers'[k] = subscribers[k]]_vars

----------------------------------------------------------------------------
(* connect() *)

\* C4: connect() called while the client is connecting or connected creates
\* no socket and leaves this.ws as it is.
C4_ConnectIdempotent ==
    [][(last'.op = "connect"
          /\ (isConnecting \/ getConnectionState \in {"CONNECTING", "OPEN"})) =>
          /\ ~last'.created
          /\ ws' = ws
          /\ orphans' = orphans]_vars

\* C10: a result of connect() resolves only in the open event of the
\* connection, so never while the connection is not open.
C10_ResolvesOnlyOnOpen ==
    last.res = "resolved" => (last.op = "open" /\ getConnectionState = "OPEN")

----------------------------------------------------------------------------
(* Reconnection *)

\* C7 as stated: an attempt that fails before it was open rejects the result
\* of its connect() and schedules no reconnect.
C7_FailedAttemptNoRetry ==
    (last.op = "close" /\ ~last.wasOpen) =>
        (last.res = "rejected" /\ ~last.sched)

\* C7 amended: an attempt that fails before it was open rejects the result of
\* its connect(); its close event schedules a reconnect exactly when the
\* client is not torn down and the retry budget remains, as the close of an
\* opened connection does; a throwing socket constructor schedules none.
C7_FailedAttemptRetriesWithinBudget ==
    /\ (last.op = "close" /\ ~last.wasOpen) =>
          /\ last.res = "rejected"
          /\ last.sched <=> (~isDestroyed /\ reconnectAttempts < effectiveMaxAttempts)
          /\ last.sched => (timers = 1 /\ reconnectTimer = "live")
    /\ (last.op \in {"connect", "timer"} /\ last.err = "constructor") =>
          (last.res = "rejected" /\ ~last.sched /\ timers = 0)

\* a failed first attempt has rejected and has scheduled a reconnect
C7_Witness ==
    /\ last.op = "close"
    /\ ~last.wasOpen
    /\ last.res = "rejected"
    /\ last.sched
    /\ reconnectAttempts = 0
    /\ ~dropped

\* C8: the automatic attempts never exceed maxReconnectAttempts; once that
\* many reconnects have failed no timer is pending, the close of the last
\* failed attempt schedules none, and getConnectionState() is CLOSED.
C8_RetryBudget ==
    /\ reconnectAttempts <= effectiveMaxAttempts
    /\ timers > 0 => reconnectAttempts < effectiveMaxAttempts
    /\ (last.op = "close" /\ reconnectAttempts >= effectiveMaxAttempts) =>
          (~last.sched /\ timers = 0 /\ getConnectionState = "CLOSED")

\* after a drop, the last attempt of the budget has failed
C8_Witness ==
    /\ dropped
    /\ ~isDestroyed
    /\ last.op = "close"
    /\ ~last.wasOpen
    /\ reconnectAttempts = effectiveMaxAttempts
    /\ NumLive = 0

\* C9: the close event of an opened connection leaves getConnectionState()
\* CLOSED; it schedules exactly one reconnect when the client is not torn
\* down and the retry budget remains, and none otherwise.
C9_DropSchedulesOneReconnect ==
    (last.op = "close" /\ last.wasOpen) =>
        /\ getConnectionState = "CLOSED"
        /\ last.sched <=> (~isDestroyed /\ reconnectAttempts < effectiveMaxAttempts)
        /\ timers = (IF last.sched THEN 1 ELSE 0)
        /\ last.sched => reconnectTimer = "live"

\* an opened connection has dropped while another socket of the client is
\* still live, and one reconnect is pending
C9_Witness ==
    /\ last.op = "close"
    /\ last.wasOpen
    /\ last.sched
    /\ timers = 1
    /\ NumLive = 1

----------------------------------------------------------------------------
(* Teardown *)

C12_ConnectAfterTeardownRejects ==
    [][(last'.op = "connect" /\ isDestroyed) =>
          /\ last'.res = "rejected"
          /\ last'.err = "Service destroyed"
          /\ ~last'.created
          /\ UNCHANGED <<ws, orphans, isConnecting, isDestroyed,
                         reconnectAttempts, reconnectTimer, timers,
                         subscribers, activeSubscriptions>>]_vars

\* connect() was called on a client torn down while it was connecting
C12_Witness ==
    /\ isDestroyed
    /\ isConnecting
    /\ last.op = "connect"
    /\ last.err = "Service destroyed"

\* C13: after teardown connect(), subscribe() and send() fail (res is
\* "rejected" for a call that rejected or threw, "none" for one that returned
\* normally), and subscribe() adds no callback to the registry.
C13_TornDownOperationsFail ==
    (isDestroyed /\ last.op \in {"connect", "subscribe", "send"}) =>
        /\ last.res = "rejected"
        /\ last.op = "subscribe" => last.h.subscriptionKey \notin Keys

\* C14: once the client is torn down no reconnect timer is pending, none is
\* scheduled and none fires, no step creates a socket, and
\* getConnectionState() stays CLOSED, whatever events follow.
C14_NothingRevivesAfterTeardown ==
    isDestroyed =>
        /\ timers = 0
        /\ reconnectTimer = "null"
        /\ last.op # "timer"
        /\ ~last.sched
        /\ ~last.created
        /\ getConnectionState = "CLOSED"

\* the close event of an opened connection was handled after teardown, with
\* retry budget left
C14_Witness ==
    /\ isDestroyed
    /\ last.op = "close"
    /\ last.wasOpen
    /\ shouldReconnect

----------------------------------------------------------------------------
(* send() *)

\* C15: send() returns normally; while this.ws is not open it writes no
\* frame, while it is open it writes the one frame; it changes no field of the
\* client; and no other step ever writes a frame that came from a send().
C15_SendNeverQueues ==
    [][/\ last'.op = "send" =>
            /\ last'.res = "none"
            /\ ~wsIsOpen(ws) => last'.frames = << >>
            /\ wsIsOpen(ws) =>
                  \E data \in Payloads :
                      last'.frames = << [type |-> "data", name |-> data] >>
            /\ UNCHANGED <<ws, orphans, isConnecting, isDestroyed,
                           reconnectAttempts, reconnectTimer, timers,
                           subscribers, activeSubscriptions>>
       /\ last'.op # "send" =>
            \A i \in 1 .. Len(last'.frames) : last'.frames[i].type # "data"]_vars

\* send() was called after a drop, while the reconnect was pending
C15_Witness ==
    /\ last.op = "send"
    /\ last.frames = << >>
    /\ last.err = "warn"
    /\ dropped
    /\ timers = 1

----------------------------------------------------------------------------
(* Inbound frames *)

\* the fields of the client other than the record of the last step
Fields ==
    <<ws, orphans, isConnecting, isDestroyed, reconnectAttempts,
      reconnectTimer, timers, subscribers, activeSubscriptions, config>>

\* what the frame data would deliver, were it the next frame to arrive
Delivery(data) == onmessage(data, {})

\* the key an item of the frame message is looked up under
ItemKey(message, item) == createSubscriptionKey(message.table, item.symbol)

\* the callbacks registered under the key k
Registered(k) == IF k \in Keys THEN subscribers[k] ELSE {}

\* a frame that handleMessage dispatches: a table frame with a channel and a
\* data array
IsTableFrame(data) ==
    /\ data.wellFormed
    /\ data.message.type = "table"
    /\ data.message.table # Null
    /\ data.message.hasData

\* C16: a frame that does not parse does not throw out of ws.onmessage,
\* invokes no callback, changes no field of the client, and leaves what every
\* next frame delivers as it was.
C16_MalformedFrameIsDropped ==
    [][(last'.op = "message" /\ ~last'.msg.wellFormed) =>
          /\ last'.res = "none"
          /\ last'.calls = << >>
          /\ UNCHANGED Fields
          /\ \A data \in Events : Delivery(data)' = Delivery(data)]_vars

\* a frame that does not parse arrived while callbacks were registered
C16_Witness ==
    /\ last.op = "message"
    /\ ~last.msg.wellFormed
    /\ last.err = "parse"
    /\ Keys # {}

\* C17: when a callback throws on a frame, every callback registered under a
\* key the frame addresses is still invoked for each item of that key, the
\* handler does not throw, no field of the client changes, and what every
\* next frame delivers is as it was.
C17_ThrowingCallbackIsIsolated ==
    [][(/\ last'.op = "message"
        /\ \E i \in 1 .. Len(last'.calls) : \E r \in last'.calls[i] : r.threw) =>
          /\ last'.res = "none"
          /\ Len(last'.calls) = Len(last'.msg.message.data)
          /\ \A i \in 1 .. Len(last'.calls) :
                { r.callback : r \in last'.calls[i] } =
                    Registered(ItemKey(last'.msg.message,
                                       last'.msg.message.data[i]))
          /\ UNCHANGED Fields
          /\ \A data \in Events : Delivery(data)' = Delivery(data)]_vars

\* on a frame of two items, a callback threw on the first item while another
\* callback of the same key received it, and the second item was delivered
C17_Witness ==
    /\ last.op = "message"
    /\ Len(last.calls) = 2
    /\ \E r, q \in last.calls[1] : r.threw /\ ~q.threw
    /\ last.calls[2] # {}

\* C18: for a table frame on channel c, every item is dispatched exactly once
\* to each callback registered under the item's key ("c:s" for an item with
\* symbol s, "c" for an item without one) and to no other callback, and every
\* invocation receives channel c, the item's symbol, the frame's action and
\* the item.
C18_PerItemDispatch ==
    [][(last'.op = "message" /\ IsTableFrame(last'.msg)) =>
          LET message == last'.msg.message
          IN  /\ Len(last'.calls) = Len(message.data)
              /\ \A i \in 1 .. Len(message.data) :
                    LET item == message.data[i]
                    IN  /\ \A callback \in Callbacks :
                              Cardinality({ r \in last'.calls[i] :
                                              r.callback = callback }) =
                                  IF callback \in Registered(ItemKey(message, item))
                                  THEN 1 ELSE 0
                        /\ \A r \in last'.calls[i] :
                              r.arg = [channel |-> message.table,
                                       symbol |-> item.symbol,
                                       action |-> message.action,
                                       data |-> item]]_vars

\* a frame carried an item without a symbol and an item with one; the
\* callback of the bare key received the first only, the callback of the
\* symbol's key the second only
C18_Witness ==
    /\ last.op = "message"
    /\ IsTableFrame(last.msg)
    /\ Len(last.calls) = 2
    /\ last.msg.message.data[1].symbol = Null
    /\ last.msg.message.data[2].symbol # Null
    /\ \E r \in last.calls[1], q \in last.calls[2] :
          /\ r.callback # q.callback
          /\ last.calls[1] = {r}
          /\ last.calls[2] = {q}

----------------------------------------------------------------------------
(* One connection, one live set *)

\* the sockets of the client that are connecting or open
UpOrphans == { o \in BagToSet(orphans) : o.rs \in {"CONNECTING", "OPEN"} }

\* C19: in every state at most one socket of the client is connecting or
\* open.
C19_OneConnection ==
    /\ ws # NoSocket => UpOrphans = {}
    /\ Cardinality(UpOrphans) <= 1
    /\ \A o \in UpOrphans : CopiesIn(o, orphans) = 1

\* C20: while this.ws is open, every key that has a callback in the registry
\* is a member of the live set.
C20_LiveSetCoversRegistry ==
    wsIsOpen(ws) =>
        \A k \in Keys :
            \E i \in 1 .. Len(activeSubscriptions) : activeSubscriptions[i] = k

----------------------------------------------------------------------------
(* The retry budget *)

\* the retry budget is spent and nothing of the client is in flight
Exhausted ==
    /\ reconnectAttempts >= effectiveMaxAttempts
    /\ NumLive = 0
    /\ timers = 0

\* C21: once the retry budget is exhausted, no step other than an explicit
\* connect() creates a socket, schedules a timer or changes what
\* getConnectionState() reports, and the explicit connect() that creates the
\* new socket sets the attempt counter to zero.
C21_ExplicitConnectResetsBudget ==
    [][Exhausted =>
          IF last'.op = "connect"
          THEN last'.created => reconnectAttempts' = 0
          ELSE /\ ~last'.created
               /\ timers' = 0
               /\ getConnectionState' = "CLOSED"]_vars

\* C22: every open event sets the attempt counter to zero and replays the
\* live set, and whenever an opened connection drops on a client that is not
\* torn down, the counter is still zero, so that the full budget of retries
\* follows the drop.
C22_OpenRestoresFullBudget ==
    /\ last.op = "open" =>
          /\ reconnectAttempts = 0
          /\ wsIsOpen(ws) =>
                Len(last.frames) = Len(activeSubscriptions)
    /\ (last.op = "close" /\ last.wasOpen /\ ~isDestroyed) =>
          /\ reconnectAttempts = 0
          /\ last.sched

----------------------------------------------------------------------------
(* The reconnect delay *)

C24_ExponentialBackoff ==
    (last.op = "close" /\ ~last.wasOpen /\ last.sched /\ reconnectAttempts >= 1) =>
        last.delay > reconnectDelay(reconnectAttempts - 1)

----------------------------------------------------------------------------
(* Cleanup of the registry *)

\* C25: an unsubscribe closure invoked when its key is not in the registry,
\* or when its callback is not in the key's callback set, returns normally,
\* emits no frame and leaves the registry and the live set as they are.
C25_StaleHandleNoOp ==
    [][(/\ last'.op = "unsubscribe"
        /\ \/ last'.h.subscriptionKey \notin Keys
           \/ last'.h.callback \notin subscribers[last'.h.subscriptionKey]) =>
          /\ last'.res = "none"
          /\ last'.frames = << >>
          /\ subscribers' = subscribers
          /\ activeSubscriptions' = activeSubscriptions]_vars

\* a closure was invoked a second time on an open connection, after its
\* first invocation had removed its callback and, with it, the key
C25_Witness ==
    /\ last.op = "unsubscribe"
    /\ last.h.used
    /\ last.h.subscriptionKey \notin Keys
    /\ wsIsOpen(ws)
    /\ last.frames = << >>

\* C26: every key of the registry has a callback, and the client holds no
\* state for a key without callbacks: every key of the live set is a key of
\* the registry.
C26_NoStateForKeysWithoutCallbacks ==
    /\ \A k \in Keys : subscribers[k] # {}
    /\ \A i \in 1 .. Len(activeSubscriptions) : activeSubscriptions[i] \in Keys

----------------------------------------------------------------------------
(* Wire format *)

\* the name the wire protocol gives the pair (channel, symbol)
WireName(channel, symbol) ==
    IF symbol = Null THEN channel ELSE channel \o <<":">> \o symbol

\* C28: a frame written by subscribe(channel, symbol, ...) has type
\* "subscribe" and the one channel entry "<channel>:<symbol>", or "<channel>"
\* without a symbol; a frame written by the unsubscribe closure of the same
\* pair has the same entry and type "unsubscribe".
C28_FrameFormat ==
    /\ last.op = "subscribe" =>
          \A i \in 1 .. Len(last.frames) :
              last.frames[i] =
                  [type |-> "subscribe",
                   name |-> WireName(last.h.channel, last.h.symbol)]
    /\ last.op = "unsubscribe" =>
          \A i \in 1 .. Len(last.frames) :
              last.frames[i] =
                  [type |-> "unsubscribe",
                   name |-> WireName(last.h.channel, last.h.symbol)]

\* the unsubscribe frame of a pair with a symbol was written
C28_Witness ==
    /\ last.op = "unsubscribe"
    /\ last.h.symbol # Null
    /\ last.frames = << [type |-> "unsubscribe", name |-> <<"a", ":", "b">>] >>

----------------------------------------------------------------------------
(* A budget of zero *)

\* C30: with maxReconnectAttempts = 0 the drop of an opened connection
\* schedules no reconnect and leaves no timer pending.
C30_ZeroBudgetNoRetry ==
    (config.maxReconnectAttempts = 0 /\ last.op = "close" /\ last.wasOpen) =>
        (~last.sched /\ timers = 0)

----------------------------------------------------------------------------
(* Recovery *)

\* an opened connection has just dropped on a client that is not torn down,
\* and an attempt is under way or scheduled
DropWithAttempt ==
    /\ last.op = "close" /\ last.wasOpen
    /\ ~isDestroyed
    /\ (timers > 0 \/ \E x \in Live : x.s.rs = "CONNECTING")

\* the model cannot create the socket the pending timer asks for
AtSocketBound == timers > 0 /\ ~CanConnect

\* C27: after the drop of an opened connection, with an attempt pending that
\* the transport accepts, the client is eventually connected again, unless it
\* is torn down meanwhile.
C27_RecoversAfterDrop ==
    DropWithAttempt ~> (wsIsOpen(ws) \/ isDestroyed \/ AtSocketBound)

----------------------------------------------------------------------------
(* Replay and the registry *)

\* C31: the replay of an open event emits subscribe frames only for keys that
\* have a registered callback at that moment, and leaves no other key in the
\* live set.
C31_ReplaySkipsKeysWithoutCallbacks ==
    last.op = "open" =>
        /\ FrameNames(last.frames, "subscribe") \subseteq Keys
        /\ \A i \in 1 .. Len(activeSubscriptions) :
              activeSubscriptions[i] \in Keys

----------------------------------------------------------------------------
(* Keys of pairs that hold a colon *)

\* C32: two subscriptions share a key exactly when their (channel, symbol)
\* pairs are equal, and a callback receives an event only when it was
\* subscribed to the pair (channel, symbol) of that event.
C32_DistinctPairsDistinctKeys ==
    /\ \A g, h \in BagToSet(handles) :
          (g.subscriptionKey = h.subscriptionKey) <=>
              (g.channel = h.channel /\ g.symbol = h.symbol)
    /\ last.op = "message" =>
          \A i \in 1 .. Len(last.calls) : \A r \in last.calls[i] :
              \E h \in BagToSet(handles) :
                  /\ h.callback = r.callback
                  /\ h.channel = r.arg.channel
                  /\ h.symbol = r.arg.symbol

\* C33: the open event of a reconnect emits, for the keys of the live set in
\* turn, one subscribe frame that carries the name the key was first sent
\* under, and leaves the live set as it was.
C33_ReplayRoundTrip ==
    [][(last'.op = "open" /\ wsIsOpen(ws')) =>
          /\ Len(last'.frames) = Len(activeSubscriptions)
          /\ \A i \in 1 .. Len(activeSubscriptions) :
                last'.frames[i] =
                    [type |-> "subscribe", name |-> activeSubscriptions[i]]
          /\ activeSubscriptions' = activeSubscriptions]_vars

----------------------------------------------------------------------------
(* Timers and stale sockets *)

\* C34: no reconnect timer is pending while this.ws is a connecting or open
\* socket, and the expiry of a reconnect timer never creates a socket beside
\* another socket of the client.
C34_NoTimerWhileConnected ==
    /\ ws # NoSocket => timers = 0
    /\ (last.op = "timer" /\ last.created) => orphans = EmptyBag

\* C35: the close of a socket that is not the client's current connection
\* leaves this.ws and the reported connection state as they were, and
\* schedules no reconnect while the current connection is open.
C35_StaleCloseLeavesCurrent ==
    [][(last'.op = "close" /\ ~last'.cur) =>
          /\ ws' = ws
          /\ getConnectionState' = getConnectionState
          /\ wsIsOpen(ws) => ~last'.sched]_vars

\* C36: at most one reconnect timer is pending, and it is the one
\* this.reconnectTimer refers to; a reconnect scheduled while one is pending
\* replaces it; an expiry leaves no timer pending and adds exactly one to the
\* attempt counter.
C36_OnePendingTimer ==
    /\ [](/\ timers <= 1
          /\ timers = 1 => reconnectTimer = "live"
          /\ (last.op = "close" /\ last.sched) => timers = 1)
    /\ [][last'.op = "timer" =>
             /\ timers = 1 /\ timers' = 0
             /\ reconnectAttempts' = reconnectAttempts + 1]_vars

\* a reconnect was scheduled while the timer of an earlier one was pending:
\* the earlier one was cleared and one timer is pending
C36_Witness ==
    /\ last.op = "close"
    /\ last.sched
    /\ last.cleared
    /\ timers = 1

----------------------------------------------------------------------------
(* Resolution of connect() *)

\* C38: whenever a connect() result has just resolved and the client is
\* connected, the step that resolved it is an open event that has reset the
\* attempt counter and has emitted, in the same handler run, the replay: as
\* many subscribe frames as the live set has keys.
C38_ResolvedAfterReplay ==
    (last.res = "resolved" /\ wsIsOpen(ws)) =>
        /\ last.op = "open"
        /\ reconnectAttempts = 0
        /\ Cardinality({ i \in 1 .. Len(last.frames) :
                            last.frames[i].type = "subscribe" }) =
              Len(activeSubscriptions)

\* after a drop, the open event of the reconnect has resolved with a live
\* set to replay
C38_Witness ==
    /\ last.op = "open"
    /\ last.cur
    /\ last.res = "resolved"
    /\ wsIsOpen(ws)
    /\ dropped
    /\ Len(activeSubscriptions) >= 1
    /\ Len(last.frames) >= 1

----------------------------------------------------------------------------
TypeOK ==
    /\ ws \in {NoSocket}
          \cup { [rs |-> r, wasOpen |-> (r = "OPEN")] : r \in {"CONNECTING", "OPEN"} }
    /\ isConnecting \in BOOLEAN
    /\ isDestroyed \in BOOLEAN
    /\ reconnectAttempts \in Nat
    /\ reconnectTimer \in {"null", "live", "spent"}
    /\ timers \in Nat
    /\ NumLive <= MaxSockets
    /\ BagCardinality(handles) <= MaxHandles

====
